---- MODULE Spec2Model ----
(***************************************************************************)
(* Model of babel: the Streamlit script babel/app.py (main) driving the    *)
(* Babel helper of babel/core.py.  One script run is a walk of `pc` from   *)
(* "start" to "done"; an analysis request is the part of a run that starts *)
(* when the "Analyze Segment" button is found pressed (app.py:101).        *)
(* The process-wide state (st.cache_resource caches, the temp directory)   *)
(* survives from one run to the next.                                      *)
(***************************************************************************)
EXTENDS Integers, Sequences, FiniteSets, TLC

\* ---------------------------------------------------------------- bounds
MaxRuns == 2        \* script runs (reruns) of one server process
MaxLen == 2         \* length of a list/tuple returned by the classifier
MaxCodes == 2       \* language codes in a distribution returned by whisper

\* ------------------------------------------------------------- constants
Unset == "<unset>"                  \* an environment variable that is not set
DefaultDialectModel == "badrex/mms-300m-arabic-dialect-identifier"
DefaultWhisperModel == "turbo"
TargetLanguage == "ar"

Devices == {"cuda", "mps", "cpu"}
WhisperEnv == {Unset, "base"}       \* values of WHISPER_MODEL
DialectEnv == {Unset}               \* values of DIALECT_MODEL
OfflineEnv == {Unset, "0", "TRUE"}   \* values of BABEL_OFFLINE
WhisperIds == {DefaultWhisperModel, "base"}
DialectIds == {DefaultDialectModel}
WhisperKeys == WhisperIds \X Devices
ClassifierKeys == DialectIds \X Devices

Codes == {"ar", "en", "de"}         \* language codes of whisper's table
Probs == {1, 2}                     \* probabilities, in arbitrary units
Sizes == {0, 1}                     \* st_size of ffmpeg's output: 0 or not
ExitCodes == {0, 1}                 \* ffmpeg's exit status

None == 0                           \* Python's None for a path variable

\* The widgets' values as slice_audio gets them: start_time is a str (the
\* text input) or a float, duration a float; floats are kept in tenths.
Settings ==
    {[start_time |-> [type |-> "str", text |-> "0", tenths |-> 0],
      duration |-> [type |-> "float", text |-> "", tenths |-> 300]],
     [start_time |-> [type |-> "str", text |-> "00:01:00", tenths |-> 0],
      duration |-> [type |-> "float", text |-> "", tenths |-> 15]],
     [start_time |-> [type |-> "float", text |-> "", tenths |-> 100],
      duration |-> [type |-> "float", text |-> "", tenths |-> 50]]}
NoArgs == [input_path |-> None, start_time |-> [type |-> "unset"],
           duration |-> [type |-> "unset"]]
NoLanguage == "<none>"              \* `language` not yet assigned
NotImported == [done |-> FALSE, after_set_offline |-> FALSE, offline |-> FALSE]
NoWarm == [dialect |-> "", whisper |-> ""]
NoBabel == [device |-> "<none>", dialect_model_id |-> "", whisper_model_id |-> ""]

\* -------------------------------------------------- values from the models
\* What whisper's detect_language hands back as `probs`: nothing (None), or
\* a dict, kept as the sequence of its items in iteration order.
RECURSIVE DictItems(_)
DictItems(n) ==
    IF n = 0 THEN {<<>>}
    ELSE LET shorter == DictItems(n - 1)
         IN  shorter \cup
             {Append(s, [code |-> c, p |-> q]) :
                 s \in {t \in shorter : Len(t) = n - 1}, c \in Codes, q \in Probs}

DistinctCodes(items) ==
    \A i, j \in 1..Len(items) : items[i].code = items[j].code => i = j

WhisperResponses ==
    {[kind |-> "raise"], [kind |-> "none"]}
    \cup {[kind |-> "dict", items |-> s] : s \in {t \in DictItems(MaxCodes) : DistinctCodes(t)}}

\* What the audio-classification pipeline hands back: a list or a tuple of
\* elements, or one bare element.  An element is a dict or something else.
\* a dict without the keys display_results reads
BadDict == [type |-> "dict"]
Elems == {[type |-> "dict", label |-> "EGY", score |-> 9],
          [type |-> "dict", label |-> "LEV", score |-> 2],
          BadDict,
          [type |-> "str"]}

RECURSIVE ElemSeqs(_)
ElemSeqs(n) ==
    IF n = 0 THEN {<<>>}
    ELSE LET shorter == ElemSeqs(n - 1)
         IN  shorter \cup
             {Append(s, e) : s \in {t \in shorter : Len(t) = n - 1}, e \in Elems}

ClassifierResponses ==
    {[type |-> "raise"]}
    \cup {[type |-> "list", items |-> s] : s \in ElemSeqs(MaxLen)}
    \cup {[type |-> "tuple", items |-> s] : s \in ElemSeqs(MaxLen)}
    \cup Elems

VARIABLES
    cuda, mps,              \* torch.cuda.is_available(), torch.backends.mps.is_available()
    env_whisper, env_dialect, \* WHISPER_MODEL, DIALECT_MODEL
    babel,                  \* the instance cached by get_babel, or NoBabel
    whisper_cache,          \* st.cache_resource store of load_whisper_model: key -> handle, 0 = absent
    classifier_cache,       \* st.cache_resource store of load_classifier
    next_handle,            \* identity of the next model object created
    fs, next_file,          \* temp files that exist; name of the next one
    pc,                     \* position of the script run in main
    exc,                    \* exception in flight inside the try block
    propagated,             \* what left main: "None", "StopException" or an error
    tmp_file_path, sliced_file_path, language, predictions,   \* locals of main
    \* history of the current run
    runs, whisper_loads, classifier_loads, whisper_got, classifier_got,
    saved, slice_created, ffmpeg, slice_ret, probs, raw, calls, shown, logged,
    rendered, raised,
    slice_args,             \* (input_path, start_time, duration) of the slice_audio call
    ffmpeg_runs,            \* the commands given to subprocess.run, in order
    env_offline,            \* BABEL_OFFLINE
    modules,                \* sys.modules: what the process has imported
    environ_offline,        \* HF_HUB_OFFLINE and TRANSFORMERS_OFFLINE are "1"
    set_offline_called,     \* set_offline_env has been invoked in this process
    transformers_import,    \* the process as it was when transformers was imported
    warmed                  \* the models the warm-up script model_cfg.py loaded

vars == <<cuda, mps, env_whisper, env_dialect, babel, whisper_cache,
          classifier_cache, next_handle, fs, next_file, pc, exc, propagated,
          tmp_file_path, sliced_file_path, language, predictions,
          runs, whisper_loads, classifier_loads, whisper_got, classifier_got,
          saved, slice_created, ffmpeg, slice_ret, probs, raw, calls, shown, logged,
          rendered, raised, slice_args, ffmpeg_runs,
          env_offline, modules, environ_offline, set_offline_called,
          transformers_import, warmed>>

process_vars == <<cuda, mps, env_whisper, env_dialect>>
local_vars == <<tmp_file_path, sliced_file_path, language, predictions>>
slice_history == <<slice_args, ffmpeg_runs>>
import_vars == <<modules, environ_offline, set_offline_called, transformers_import>>
boot_vars == <<env_offline, import_vars, warmed>>

\* ================================================================ core.py
getenv(value, default) == IF value = Unset THEN default ELSE value

\* get_device with the two tests in the other order
get_device_mps_first(cuda_available, mps_available) ==
    IF mps_available THEN "mps"
    ELSE IF cuda_available THEN "cuda"
    ELSE "cpu"

get_device(cuda_available, mps_available) ==
    IF cuda_available THEN "cuda"
    ELSE IF mps_available THEN "mps"
    ELSE "cpu"

\* Babel.__init__
Babel(cuda_available, mps_available, dialect_env, whisper_env) ==
    [device |-> get_device(cuda_available, mps_available),
     dialect_model_id |-> getenv(dialect_env, DefaultDialectModel),
     whisper_model_id |-> getenv(whisper_env, DefaultWhisperModel)]

\* How a run of a loader's body ends: with the model, or with an exception.
LoadOutcomes == {"ok", "OSError", "AttributeError"}

\* A function under st.cache_resource called with `key`: a stored handle is
\* returned as it is; otherwise the body runs (`outcome`), and the object it
\* made (`fresh`) is stored and returned unless the body raised.
cache_resource(cache, key, fresh, outcome) ==
    IF cache[key] # 0
    THEN [cache |-> cache, handle |-> cache[key], loaded |-> 0, raised |-> "None"]
    ELSE IF outcome = "ok"
    THEN [cache |-> [cache EXCEPT ![key] = fresh], handle |-> fresh,
          loaded |-> 1, raised |-> "None"]
    ELSE [cache |-> cache, handle |-> 0, loaded |-> 0, raised |-> outcome]

\* load_whisper_model without @st.cache_resource: the body runs on every call
load_whisper_model_uncached(cache, key, fresh, outcome) ==
    IF outcome = "ok"
    THEN [cache |-> [cache EXCEPT ![key] = fresh], handle |-> fresh,
          loaded |-> 1, raised |-> "None"]
    ELSE [cache |-> cache, handle |-> 0, loaded |-> 0, raised |-> outcome]

load_whisper_model(cache, key, fresh, outcome) ==
    cache_resource(cache, key, fresh, outcome)

load_classifier(cache, key, fresh, outcome) ==
    cache_resource(cache, key, fresh, outcome)

\* the properties whisper_model and classifier
whisper_model(self, cache, fresh, outcome) ==
    load_whisper_model(cache, <<self.whisper_model_id, self.device>>, fresh, outcome)

classifier(self, cache, fresh, outcome) ==
    load_classifier(cache, <<self.dialect_model_id, self.device>>, fresh, outcome)

\* next(iter(probs)) in place of the maximum
argmax_first(items) == items[1].code

\* max(probs, key=probs.get): the first item, in iteration order, that no
\* other item beats
argmax(items) ==
    LET best == CHOOSE i \in 1..Len(items) :
                    /\ \A j \in 1..Len(items) : items[j].p <= items[i].p
                    /\ \A j \in 1..(i - 1) : items[j].p < items[i].p
    IN  items[best].code

\* detect_language, from the model's response on
detect_language(response) ==
    IF response.kind = "raise"
    THEN [exc |-> "RuntimeError", language |-> NoLanguage]
    ELSE IF response.kind = "none" \/ response.items = <<>>
    THEN [exc |-> "ValueError", language |-> NoLanguage]
    ELSE [exc |-> "None", language |-> argmax(response.items)]

IsDict(e) == e.type = "dict"

\* predict_dialect without the isinstance(prediction, dict) filter
predict_dialect_no_filter(response) ==
    IF response.type # "list"
    THEN IF response.type \in {"list", "tuple"}
         THEN response.items
         ELSE <<response>>
    ELSE response.items

\* predict_dialect, from the pipeline's response on
predict_dialect(response) ==
    LET as_list == IF response.type # "list"
                   THEN IF response.type \in {"list", "tuple"}
                        THEN response.items
                        ELSE <<response>>
                   ELSE response.items
    IN  SelectSeq(as_list, IsDict)

\* str(): a str is itself, a float is printed with its fraction digit
str(value) ==
    IF value.type = "str" THEN value.text
    ELSE ToString(value.tenths \div 10) \o "." \o ToString(value.tenths % 10)

\* the name of temp file number `file`
PathName(file) == "/tmp/tmp" \o ToString(file)

\* the ffmpeg command with start and duration in each other's place
command_swapped(input_path, start_time, duration, output_path) ==
    <<"ffmpeg", "-y", "-ss", str(duration), "-t", str(start_time),
      "-i", PathName(input_path), "-vn", "-acodec", "pcm_s16le",
      "-ar", "16000", "-ac", "1", PathName(output_path)>>

\* the ffmpeg command that slice_audio builds
command(input_path, start_time, duration, output_path) ==
    <<"ffmpeg", "-y", "-ss", str(start_time), "-t", str(duration),
      "-i", PathName(input_path), "-vn", "-acodec", "pcm_s16le",
      "-ar", "16000", "-ac", "1", PathName(output_path)>>

\* slice_audio without the st_size test
slice_audio_no_size_check(exit_code, st_size, output_path) ==
    IF exit_code # 0 THEN [exc |-> "CalledProcessError", ret |-> None]
    ELSE [exc |-> "None", ret |-> output_path]

\* slice_audio after the temp file `output_path` was created: the outcome of
\* subprocess.run(check=True) and of the size test
slice_audio(exit_code, st_size, output_path) ==
    IF exit_code # 0 THEN [exc |-> "CalledProcessError", ret |-> None]
    ELSE IF st_size = 0 THEN [exc |-> "ValueError", ret |-> None]
    ELSE [exc |-> "None", ret |-> output_path]

\* ========================================================== utils/env_cfg.py
\* str.lower() on the values BABEL_OFFLINE takes
lower(text) ==
    CASE text = "TRUE" -> "true"
      [] text = "YES" -> "yes"
      [] OTHER -> text

\* set_offline_env: whether the offline variables are "1" after the call
set_offline_env(offline_before, babel_offline_env) ==
    LET babel_offline == lower(getenv(babel_offline_env, "1")) \in {"1", "true", "yes"}
    IN  offline_before \/ babel_offline

\* load_model_env
load_model_env(dialect_env, whisper_env) ==
    [dialect_model |-> getenv(dialect_env, DefaultDialectModel),
     whisper_model |-> getenv(whisper_env, DefaultWhisperModel)]

\* ======================================================== utils/model_cfg.py
\* load_hf_model: the repository that is in the hub cache afterwards
load_hf_model(model_id) == model_id

\* load_whisper_model of model_cfg: the name given to whisper.load_model
cfg_load_whisper_model(model_id) == "turbo"

\* main of model_cfg: the models in the caches after the warm-up
model_cfg_main(dialect_env, whisper_env) ==
    LET models == load_model_env(dialect_env, whisper_env)
    IN  [dialect |-> load_hf_model(models.dialect_model),
         whisper |-> cfg_load_whisper_model(models.whisper_model)]

\* ================================================================= app.py
\* The module-level statements of app.py and the imports at the top of
\* core.py, in file order.
AppModule == <<"import streamlit", "import babel.core",
               "import babel.utils.logging_cfg", "import babel.utils.env_cfg",
               "setup_logging()", "set_offline_env()">>
CoreModule == <<"import streamlit", "import torch", "import whisper",
                "import transformers">>

ModuleOf(stmt) ==
    CASE stmt = "import streamlit" -> "streamlit"
      [] stmt = "import torch" -> "torch"
      [] stmt = "import whisper" -> "whisper"
      [] stmt = "import transformers" -> "transformers"
      [] stmt = "import babel.core" -> "babel.core"
      [] stmt = "import babel.utils.logging_cfg" -> "babel.utils.logging_cfg"
      [] stmt = "import babel.utils.env_cfg" -> "babel.utils.env_cfg"
      [] OTHER -> ""

\* the statements a module runs when it is imported for the first time
BodyOf(module) ==
    CASE module = "babel.core" -> CoreModule
      [] module = "babel.utils.logging_cfg" -> <<"import babel.utils.env_cfg">>
      [] OTHER -> <<>>

\* Running statements in order on the process state `st`.  An import of a
\* module already in sys.modules does nothing; the first import of
\* transformers records what the process looked like at that moment.
RECURSIVE exec(_, _, _)
exec(stmts, st, babel_offline_env) ==
    IF stmts = <<>> THEN st
    ELSE LET stmt == Head(stmts)
             module == ModuleOf(stmt)
             after ==
                 IF stmt = "set_offline_env()"
                 THEN [st EXCEPT !.set_offline_called = TRUE,
                                 !.environ_offline =
                                     set_offline_env(st.environ_offline, babel_offline_env)]
                 ELSE IF module = "" \/ module \in st.modules
                 THEN st
                 ELSE LET seen == IF module = "transformers"
                                  THEN [done |-> TRUE,
                                        after_set_offline |-> st.set_offline_called,
                                        offline |-> st.environ_offline]
                                  ELSE st.transformers_import
                          entered == [st EXCEPT !.modules = @ \cup {module},
                                                !.transformers_import = seen]
                      IN  exec(BodyOf(module), entered, babel_offline_env)
         IN  exec(Tail(stmts), after, babel_offline_env)

\* display_results: the rows drawn, and the KeyError of the first dict that
\* lacks a key the loop reads
HasKeys(pred) == {"label", "score"} \subseteq DOMAIN pred

display_results(preds) ==
    LET bad == {i \in 1..Len(preds) : ~HasKeys(preds[i])}
        first_bad == CHOOSE i \in bad : \A j \in bad : i <= j
    IN  IF bad = {}
        THEN [exc |-> "None", rendered |-> preds]
        ELSE [exc |-> "KeyError", rendered |-> SubSeq(preds, 1, first_bad - 1)]

\* the block with the predictions[0] log line ahead of the emptiness test
show_predictions_top_first(preds) ==
    LET d == display_results(preds)
    IN  IF d.exc # "None"
        THEN [exc |-> d.exc, shown |-> {"results"}, logged |-> {}, rendered |-> d.rendered]
        ELSE IF preds = <<>>
        THEN [exc |-> "IndexError", shown |-> {"results"}, logged |-> {},
              rendered |-> d.rendered]
        ELSE [exc |-> "None", shown |-> {"results"},
              logged |-> {"info: analysis complete"}, rendered |-> d.rendered]

\* the statements of the "Analyzing..." block that follow predict_dialect
show_predictions(preds) ==
    LET d == display_results(preds)
    IN  IF d.exc # "None"
        THEN [exc |-> d.exc, shown |-> {"results"}, logged |-> {}, rendered |-> d.rendered]
        ELSE IF preds = <<>>
        THEN [exc |-> "StopException", shown |-> {"results", "no_predictions"},
              logged |-> {"error: no results"}, rendered |-> d.rendered]
        ELSE [exc |-> "None", shown |-> {"results"},
              logged |-> {"info: analysis complete"}, rendered |-> d.rendered]

\* the statements that follow slice_audio in the "Slicing audio..." block
after_slice(path) ==
    IF path = None
    THEN [exc |-> "StopException", shown |-> {"slice_failed"},
          logged |-> {"error: slicing failed"}]
    ELSE [exc |-> "None", shown |-> {}, logged |-> {}]

\* the same statements without the `language != "ar"` gate
after_detect_no_gate(lang) ==
    IF lang = ""
    THEN [exc |-> "StopException", shown |-> {"detect_failed"},
          logged |-> {"error: detection failed"}]
    ELSE [exc |-> "None", shown |-> {}, logged |-> {"info: language"}]

\* the statements that follow detect_language, up to the language gate
after_detect(lang) ==
    IF lang = ""
    THEN [exc |-> "StopException", shown |-> {"detect_failed"},
          logged |-> {"error: detection failed"}]
    ELSE IF lang # TargetLanguage
    THEN [exc |-> "StopException", shown |-> {"wrong_language"},
          logged |-> {"info: language", "warning: non-arabic"}]
    ELSE [exc |-> "None", shown |-> {}, logged |-> {"info: language"}]

\* where control goes from inside the try block
goto(e, next) ==
    IF e = "None" THEN next
    ELSE IF e = "StopException" THEN "finally"
    ELSE "except"

\* a finally clause that unlinks the sliced file only
cleanup_sliced_only(files, sliced, tmp) ==
    files \ (IF sliced # None THEN {sliced} ELSE {})

\* the finally clause: what is left of the temp directory
cleanup(files, sliced, tmp) ==
    (files \ (IF sliced # None THEN {sliced} ELSE {}))
           \ (IF tmp # None THEN {tmp} ELSE {})

\* ============================================================ state machine
NoResponse == [kind |-> "unset"]
NoRaw == [type |-> "unset"]
NoFfmpeg == [exit |-> -1, size |-> -1]

history_vars == <<saved, slice_created, ffmpeg, slice_ret, probs, raw, calls,
                  shown, logged, rendered, raised>>

\* A fresh process, with BABEL_OFFLINE taken from `offline_values`
InitWith(offline_values) ==
    /\ cuda \in BOOLEAN /\ mps \in BOOLEAN
    /\ env_whisper \in WhisperEnv /\ env_dialect \in DialectEnv
    /\ env_offline \in offline_values
    /\ modules = {} /\ environ_offline = FALSE /\ set_offline_called = FALSE
    /\ transformers_import = NotImported
    /\ warmed = NoWarm
    /\ babel = NoBabel
    /\ whisper_cache = [k \in WhisperKeys |-> 0]
    /\ classifier_cache = [k \in ClassifierKeys |-> 0]
    /\ whisper_loads = [k \in WhisperKeys |-> 0]
    /\ classifier_loads = [k \in ClassifierKeys |-> 0]
    /\ whisper_got = [k \in WhisperKeys |-> {}]
    /\ classifier_got = [k \in ClassifierKeys |-> {}]
    /\ next_handle = 1
    /\ fs = {} /\ next_file = 1
    /\ pc = "script" /\ exc = "None" /\ propagated = "None"
    /\ tmp_file_path = None /\ sliced_file_path = None
    /\ language = NoLanguage /\ predictions = <<>>
    /\ runs = 1
    /\ saved = None /\ slice_created = None
    /\ ffmpeg = NoFfmpeg /\ slice_ret = None
    /\ probs = NoResponse /\ raw = NoRaw
    /\ calls = <<>> /\ shown = {} /\ logged = {} /\ rendered = <<>>
    /\ raised = "None"
    /\ slice_args = NoArgs /\ ffmpeg_runs = <<>>

\* the application with BABEL_OFFLINE left unset
Init == InitWith({Unset})

\* the start-up with every value of BABEL_OFFLINE
InitStartup == InitWith(OfflineEnv)

\* The warm-up script model_cfg.py, run before the application is started.
ModelCfgMain ==
    /\ pc = "script" /\ runs = 1 /\ modules = {} /\ warmed = NoWarm
    /\ warmed' = model_cfg_main(env_dialect, env_whisper)
    /\ UNCHANGED <<process_vars, env_offline, import_vars, slice_history, babel,
                   whisper_cache, classifier_cache, next_handle, fs, next_file,
                   pc, exc, propagated, local_vars, runs,
                   whisper_loads, classifier_loads, whisper_got, classifier_got,
                   history_vars>>

\* The script app.py up to the call of main: its module-level statements,
\* which every run of the script executes again.
ImportApp ==
    /\ pc = "script"
    /\ LET st == exec(AppModule,
                      [modules |-> modules, environ_offline |-> environ_offline,
                       set_offline_called |-> set_offline_called,
                       transformers_import |-> transformers_import],
                      env_offline)
       IN  /\ modules' = st.modules
           /\ environ_offline' = st.environ_offline
           /\ set_offline_called' = st.set_offline_called
           /\ transformers_import' = st.transformers_import
    /\ pc' = "start"
    /\ UNCHANGED <<process_vars, env_offline, warmed, slice_history, babel,
                   whisper_cache, classifier_cache, next_handle, fs, next_file,
                   exc, propagated, local_vars, runs,
                   whisper_loads, classifier_loads, whisper_got, classifier_got,
                   history_vars>>

\* main, from its first line to the end of the "Initializing models..."
\* block: get_babel() and the two hasattr() probes, which run the properties
InitModels ==
    /\ pc = "start"
    /\ \E oc \in LoadOutcomes, ow \in LoadOutcomes :
        LET self == IF babel = NoBabel
                    THEN Babel(cuda, mps, env_dialect, env_whisper)
                    ELSE babel
            ck == <<self.dialect_model_id, self.device>>
            wk == <<self.whisper_model_id, self.device>>
            c == classifier(self, classifier_cache, next_handle, oc)
            w == whisper_model(self, whisper_cache, next_handle + c.loaded, ow)
            \* hasattr() is False on AttributeError and lets the rest through
            c_failed == c.raised \notin {"None", "AttributeError"}
            w_probed == c.raised = "None"
            w_failed == w_probed /\ w.raised \notin {"None", "AttributeError"}
            missing == ~c_failed /\ ~w_failed
                          /\ (\/ c.raised = "AttributeError"
                              \/ w_probed /\ w.raised = "AttributeError")
        IN  /\ babel' = self
            /\ classifier_cache' = c.cache
            /\ classifier_loads' = [classifier_loads EXCEPT ![ck] = @ + c.loaded]
            /\ classifier_got' = IF c.raised = "None"
                                  THEN [classifier_got EXCEPT ![ck] = @ \cup {c.handle}]
                                  ELSE classifier_got
            /\ whisper_cache' = IF w_probed THEN w.cache ELSE whisper_cache
            /\ whisper_loads' = IF w_probed
                                 THEN [whisper_loads EXCEPT ![wk] = @ + w.loaded]
                                 ELSE whisper_loads
            /\ whisper_got' = IF w_probed /\ w.raised = "None"
                               THEN [whisper_got EXCEPT ![wk] = @ \cup {w.handle}]
                               ELSE whisper_got
            /\ next_handle' = next_handle + c.loaded + (IF w_probed THEN w.loaded ELSE 0)
            /\ IF c_failed \/ w_failed
               THEN /\ pc' = "done"
                    /\ propagated' = IF c_failed THEN c.raised ELSE w.raised
                    /\ UNCHANGED <<shown, logged>>
               ELSE IF missing
               THEN /\ pc' = "done"
                    /\ propagated' = "StopException"
                    /\ shown' = shown \cup {"models_failed"}
                    /\ logged' = logged \cup {"info: starting", "error: models"}
               ELSE /\ pc' = "ready"
                    /\ propagated' = "None"
                    /\ shown' = shown
                    /\ logged' = logged \cup {"info: starting", "info: models"}
    /\ UNCHANGED <<process_vars, boot_vars, slice_history, local_vars, fs, next_file, exc, runs,
                   saved, slice_created, ffmpeg, slice_ret, probs, raw, calls,
                   rendered, raised>>

\* no file uploaded, or the button not pressed: the run ends after drawing
NoRequest ==
    /\ pc = "ready"
    /\ pc' = "done"
    /\ UNCHANGED <<process_vars, boot_vars, slice_history, babel, whisper_cache, classifier_cache,
                   next_handle, fs, next_file, exc, propagated, local_vars, runs,
                   whisper_loads, classifier_loads, whisper_got, classifier_got,
                   history_vars>>

\* "Analyze Segment" pressed: save_uploaded_file and sliced_file_path = None.
\* NamedTemporaryFile(delete=False) may fail before the file exists, or the
\* write may fail after; neither is inside the try block.
SaveOutcomes == {"ok", "create failed", "write failed"}

AnalyzeSegment ==
    /\ pc = "ready"
    /\ \E outcome \in SaveOutcomes :
        /\ fs' = IF outcome = "create failed" THEN fs ELSE fs \cup {next_file}
        /\ next_file' = IF outcome = "create failed" THEN next_file ELSE next_file + 1
        /\ calls' = Append(calls, [fn |-> "save_uploaded_file", arg |-> None])
        /\ IF outcome = "ok"
           THEN /\ tmp_file_path' = next_file
                /\ saved' = next_file
                /\ pc' = "slice"
                /\ UNCHANGED <<propagated, raised>>
           ELSE /\ pc' = "done"
                /\ propagated' = "OSError"
                /\ raised' = "OSError"
                /\ UNCHANGED <<tmp_file_path, saved>>
    /\ sliced_file_path' = None
    /\ logged' = logged \cup {"info: starting analysis"}
    /\ UNCHANGED <<process_vars, boot_vars, slice_history, babel, whisper_cache, classifier_cache,
                   next_handle, exc, language, predictions, runs,
                   whisper_loads, classifier_loads, whisper_got, classifier_got,
                   slice_created, ffmpeg, slice_ret, probs, raw, shown, rendered>>

\* the "Slicing audio..." block.  slice_audio first makes its output file
\* (NamedTemporaryFile, delete=False), then runs ffmpeg on it.
SliceOutcomes ==
    {[created |-> FALSE, exit |-> -1, size |-> -1]}
    \cup {[created |-> TRUE, exit |-> e, size |-> z] : e \in ExitCodes, z \in Sizes}

SliceAudio ==
    /\ pc = "slice"
    /\ calls' = Append(calls, [fn |-> "slice_audio", arg |-> tmp_file_path])
    /\ \E o \in SliceOutcomes, widgets \in Settings :
        /\ slice_args' = [input_path |-> tmp_file_path,
                          start_time |-> widgets.start_time,
                          duration |-> widgets.duration]
        /\ IF ~o.created
           THEN /\ exc' = "OSError" /\ raised' = "OSError"
                /\ pc' = "except"
                /\ UNCHANGED <<fs, next_file, sliced_file_path, slice_created,
                               ffmpeg, slice_ret, shown, logged, ffmpeg_runs>>
           ELSE
             LET r == slice_audio(o.exit, o.size, next_file)
                 a == after_slice(r.ret)
             IN  /\ fs' = fs \cup {next_file}
                 /\ ffmpeg_runs' = Append(ffmpeg_runs,
                        command(tmp_file_path, widgets.start_time,
                                widgets.duration, next_file))
                 /\ next_file' = next_file + 1
                 /\ slice_created' = next_file
                 /\ ffmpeg' = [exit |-> o.exit, size |-> o.size]
                 /\ slice_ret' = r.ret
                 /\ IF r.exc # "None"
                    THEN /\ exc' = r.exc /\ raised' = r.exc
                         /\ pc' = "except"
                         /\ UNCHANGED <<sliced_file_path, shown, logged>>
                    ELSE /\ sliced_file_path' = r.ret
                         /\ exc' = a.exc
                         /\ pc' = goto(a.exc, "detect")
                         /\ shown' = shown \cup a.shown
                         /\ logged' = logged \cup a.logged
                         /\ UNCHANGED raised
    /\ UNCHANGED <<process_vars, boot_vars, babel, whisper_cache, classifier_cache,
                   next_handle, propagated, tmp_file_path, language, predictions,
                   runs, whisper_loads, classifier_loads, whisper_got,
                   classifier_got, saved, probs, raw, rendered>>

\* the "Detecting language..." block and the language gate that follows it
DetectLanguage ==
    /\ pc = "detect"
    /\ calls' = Append(calls, [fn |-> "detect_language", arg |-> sliced_file_path])
    /\ \E response \in WhisperResponses, ow \in LoadOutcomes :
        LET wk == <<babel.whisper_model_id, babel.device>>
            \* whisper.load_audio comes first; the property is read after it
            probed == response.kind # "raise"
            w == whisper_model(babel, whisper_cache, next_handle, ow)
            d == IF probed /\ w.raised # "None"
                 THEN [exc |-> w.raised, language |-> NoLanguage]
                 ELSE detect_language(response)
            a == after_detect(d.language)
        IN  /\ probs' = response
            /\ whisper_cache' = IF probed THEN w.cache ELSE whisper_cache
            /\ whisper_loads' = IF probed
                                 THEN [whisper_loads EXCEPT ![wk] = @ + w.loaded]
                                 ELSE whisper_loads
            /\ whisper_got' = IF probed /\ w.raised = "None"
                               THEN [whisper_got EXCEPT ![wk] = @ \cup {w.handle}]
                               ELSE whisper_got
            /\ next_handle' = next_handle + (IF probed THEN w.loaded ELSE 0)
            /\ IF d.exc # "None"
               THEN /\ exc' = d.exc /\ raised' = d.exc
                    /\ pc' = "except"
                    /\ UNCHANGED <<language, shown, logged>>
               ELSE /\ language' = d.language
                    /\ exc' = a.exc
                    /\ pc' = goto(a.exc, "predict")
                    /\ shown' = shown \cup a.shown
                    /\ logged' = logged \cup a.logged
                    /\ UNCHANGED raised
    /\ UNCHANGED <<process_vars, boot_vars, slice_history, babel, classifier_cache, fs, next_file,
                   propagated, tmp_file_path, sliced_file_path, predictions, runs,
                   classifier_loads, classifier_got, saved, slice_created, ffmpeg,
                   slice_ret, raw, rendered>>

\* predictions = babel.predict_dialect(sliced_file_path)
PredictDialect ==
    /\ pc = "predict"
    /\ calls' = Append(calls, [fn |-> "predict_dialect", arg |-> sliced_file_path])
    \* detect_language has returned: its local `probs` is gone
    /\ probs' = NoResponse
    /\ \E response \in ClassifierResponses, oc \in LoadOutcomes :
        LET ck == <<babel.dialect_model_id, babel.device>>
            c == classifier(babel, classifier_cache, next_handle, oc)
            e == IF c.raised # "None" THEN c.raised
                 ELSE IF response.type = "raise" THEN "RuntimeError"
                 ELSE "None"
        IN  /\ classifier_cache' = c.cache
            /\ classifier_loads' = [classifier_loads EXCEPT ![ck] = @ + c.loaded]
            /\ classifier_got' = IF c.raised = "None"
                                  THEN [classifier_got EXCEPT ![ck] = @ \cup {c.handle}]
                                  ELSE classifier_got
            /\ next_handle' = next_handle + c.loaded
            /\ IF e # "None"
               THEN /\ exc' = e /\ raised' = e
                    /\ pc' = "except"
                    /\ UNCHANGED <<predictions, raw>>
               ELSE /\ raw' = response
                    /\ predictions' = predict_dialect(response)
                    /\ pc' = "display"
                    /\ UNCHANGED <<exc, raised>>
    /\ UNCHANGED <<process_vars, boot_vars, slice_history, babel, whisper_cache, fs, next_file,
                   propagated, tmp_file_path, sliced_file_path, language, runs,
                   whisper_loads, whisper_got, saved, slice_created, ffmpeg,
                   slice_ret, shown, logged, rendered>>

\* the rest of the "Analyzing..." block: display_results, the test for no
\* predictions, the log line with predictions[0]
ShowResults ==
    /\ pc = "display"
    /\ LET r == show_predictions(predictions)
       IN  /\ exc' = r.exc
           /\ raised' = IF r.exc \notin {"None", "StopException"} THEN r.exc ELSE raised
           /\ pc' = goto(r.exc, "finally")
           /\ shown' = shown \cup r.shown
           /\ logged' = logged \cup r.logged
           /\ rendered' = r.rendered
    /\ calls' = Append(calls, [fn |-> "display_results", arg |-> None])
    /\ UNCHANGED <<process_vars, boot_vars, slice_history, babel, whisper_cache, classifier_cache,
                   next_handle, fs, next_file, propagated, local_vars, runs,
                   whisper_loads, classifier_loads, whisper_got, classifier_got,
                   saved, slice_created, ffmpeg, slice_ret, probs, raw>>

\* except Exception as e: log it, show the generic message
Except ==
    /\ pc = "except"
    /\ logged' = logged \cup {"exception: unexpected"}
    /\ shown' = shown \cup {"unexpected"}
    /\ exc' = "None"
    /\ pc' = "finally"
    /\ UNCHANGED <<process_vars, boot_vars, slice_history, babel, whisper_cache, classifier_cache,
                   next_handle, fs, next_file, propagated, local_vars, runs,
                   whisper_loads, classifier_loads, whisper_got, classifier_got,
                   saved, slice_created, ffmpeg, slice_ret, probs, raw, calls,
                   rendered, raised>>

\* finally: unlink both temp files; a pending StopException then leaves main
Finally ==
    /\ pc = "finally"
    /\ fs' = cleanup(fs, sliced_file_path, tmp_file_path)
    /\ propagated' = exc
    /\ exc' = "None"
    /\ pc' = "done"
    /\ UNCHANGED <<process_vars, boot_vars, slice_history, babel, whisper_cache, classifier_cache,
                   next_handle, next_file, local_vars, runs,
                   whisper_loads, classifier_loads, whisper_got, classifier_got,
                   history_vars>>

\* Streamlit runs the script again (a widget changed, a new session): the
\* locals are fresh, the caches and the temp directory are not
Rerun ==
    /\ pc = "done"
    /\ runs < MaxRuns
    /\ runs' = runs + 1
    /\ pc' = "script" /\ exc' = "None" /\ propagated' = "None"
    /\ tmp_file_path' = None /\ sliced_file_path' = None
    /\ language' = NoLanguage /\ predictions' = <<>>
    /\ saved' = None /\ slice_created' = None
    /\ ffmpeg' = NoFfmpeg /\ slice_ret' = None
    /\ probs' = NoResponse /\ raw' = NoRaw
    /\ calls' = <<>> /\ shown' = {} /\ logged' = {} /\ rendered' = <<>>
    /\ raised' = "None"
    /\ slice_args' = NoArgs /\ ffmpeg_runs' = <<>>
    /\ UNCHANGED <<process_vars, boot_vars, babel, whisper_cache, classifier_cache,
                   next_handle, fs, next_file,
                   whisper_loads, classifier_loads, whisper_got, classifier_got>>

Next ==
    \/ ImportApp
    \/ InitModels
    \/ NoRequest
    \/ AnalyzeSegment
    \/ SliceAudio
    \/ DetectLanguage
    \/ PredictDialect
    \/ ShowResults
    \/ Except
    \/ Finally
    \/ Rerun

Spec == Init /\ [][Next]_vars

\* Start-up only: the warm-up script, then runs of app.py that load the
\* models and draw the page, with no analysis request.
NextStartup ==
    \/ ModelCfgMain
    \/ ImportApp
    \/ InitModels
    \/ NoRequest
    \/ Rerun

SpecStartup == InitStartup /\ [][NextStartup]_vars

\* ================================================================== claims
PipelineSteps == <<"slice_audio", "detect_language", "predict_dialect">>
IsPipelineCall(c) == c.fn \in {"slice_audio", "detect_language", "predict_dialect"}
PipelineCalls == SelectSeq(calls, IsPipelineCall)
Called(fn) == \E i \in 1..Len(calls) : calls[i].fn = fn
ArgOf(fn) == LET i == CHOOSE j \in 1..Len(calls) : calls[j].fn = fn IN calls[i].arg
RequestEnded == pc = "done" /\ Called("save_uploaded_file")
ErrorMessages == {"models_failed", "slice_failed", "detect_failed",
                  "no_predictions", "unexpected"}

\* C1: when a request ends, the WAV file that slice_audio created in it no
\* longer exists, on every exit path, a failing slice_audio included.
C1_SlicedFileDeleted ==
    (RequestEnded /\ slice_created # None) => slice_created \notin fs

\* C2: when a request in which save_uploaded_file returned a path ends, the
\* uploaded-file temp copy no longer exists, whichever step ended the request
\* and however (normal completion, st.stop, exception).
C2_UploadCopyDeleted ==
    (RequestEnded /\ saved # None) => saved \notin fs

\* a request that an exception of dialect prediction or rendering ended
C2_Witness ==
    /\ RequestEnded /\ saved # None
    /\ Called("predict_dialect") /\ raised # "None"

\* C3: the steps of a request run in the order slice_audio, detect_language,
\* predict_dialect, each at most once; detect_language gets the path that
\* slice_audio returned and predict_dialect the same path, and only after
\* detect_language returned "ar"; any other language ends the request with
\* the warning, without predict_dialect and without an error message.
C3_PipelineOrderAndGate ==
    /\ \E n \in 0..3 :
          /\ Len(PipelineCalls) = n
          /\ \A i \in 1..n : PipelineCalls[i].fn = PipelineSteps[i]
    /\ Called("detect_language") =>
          /\ slice_ret # None
          /\ ArgOf("detect_language") = slice_ret
    /\ Called("predict_dialect") =>
          /\ language = TargetLanguage
          /\ ArgOf("predict_dialect") = ArgOf("detect_language")
    /\ (language \notin {NoLanguage, TargetLanguage}) =>
          /\ ~Called("predict_dialect")
          /\ "wrong_language" \in shown
          /\ shown \cap ErrorMessages = {}
          /\ pc \in {"finally", "done"}
          /\ raised = "None"

C3_Witness ==
    /\ RequestEnded /\ language = "en"
    /\ propagated = "StopException" /\ shown = {"wrong_language"}

\* C4: slice_audio returns a path exactly when ffmpeg exited with status 0
\* and its output is not empty; a non-zero exit raises CalledProcessError, an
\* empty output raises ValueError, and in both cases no path reaches the
\* caller.
C4_SliceReturnsIffGoodOutput ==
    (ffmpeg # NoFfmpeg) =>
        /\ (slice_ret # None) <=> (ffmpeg.exit = 0 /\ ffmpeg.size # 0)
        /\ (slice_ret # None) => (slice_ret = slice_created /\ sliced_file_path = slice_ret)
        /\ (ffmpeg.exit # 0) =>
              (raised = "CalledProcessError" /\ sliced_file_path = None)
        /\ (ffmpeg.exit = 0 /\ ffmpeg.size = 0) =>
              (raised = "ValueError" /\ sliced_file_path = None)

C4_Witness ==
    /\ ffmpeg.exit = 0 /\ ffmpeg.size = 0
    /\ raised = "ValueError" /\ slice_ret = None

\* C5: an exception raised by any step of a request (saving the upload,
\* slicing, detection, prediction, rendering) is caught in main, logged and
\* shown as the generic error; none leaves main.
C5_EveryExceptionCaught ==
    (RequestEnded /\ raised # "None") =>
        /\ propagated \in {"None", "StopException"}
        /\ "exception: unexpected" \in logged
        /\ "unexpected" \in shown

\* C6: predict_dialect returns a list of dicts: the elements of a list or
\* tuple in their order, any other value as a one-element sequence, with
\* every non-dict dropped.  A single dict gives the one-element list of it, a
\* list of dicts comes back element for element.
KeptIndexes(items) == {j \in 1..Len(items) : items[j].type = "dict"}

\* `out` is `items` without its non-dict elements, order kept
IsDictsOf(out, items) ==
    /\ Len(out) = Cardinality(KeptIndexes(items))
    /\ \E f \in [1..Len(out) -> KeptIndexes(items)] :
          /\ \A a, b \in 1..Len(out) : a < b => f[a] < f[b]
          /\ \A a \in 1..Len(out) : out[a] = items[f[a]]

C6_PredictionsNormalised ==
    (raw # NoRaw) =>
        /\ \A i \in 1..Len(predictions) : predictions[i].type = "dict"
        /\ raw.type \in {"list", "tuple"} => IsDictsOf(predictions, raw.items)
        /\ raw.type \notin {"list", "tuple"} => IsDictsOf(predictions, <<raw>>)
        /\ raw.type = "dict" => predictions = <<raw>>
        /\ (raw.type = "list" /\ KeptIndexes(raw.items) = 1..Len(raw.items)) =>
              predictions = raw.items

\* a tuple of a non-dict and a dict: one element survives
C6_Witness ==
    /\ raw.type = "tuple" /\ Len(raw.items) = 2
    /\ raw.items[1].type = "str" /\ raw.items[2].type = "dict"
    /\ predictions = <<raw.items[2]>>

\* C7: over all accesses to whisper_model and classifier, in all runs, a
\* model is loaded at most once per (identifier, device); every access gets
\* the one cached handle, and an entry once stored stays.
OneLoad(loads, got, cache, k) ==
    /\ loads[k] <= 1
    /\ Cardinality(got[k]) <= 1
    /\ (loads[k] = 1) <=> (cache[k] # 0)
    /\ got[k] # {} => got[k] = {cache[k]}

C7_LoadedOncePerKey ==
    /\ \A k \in WhisperKeys : OneLoad(whisper_loads, whisper_got, whisper_cache, k)
    /\ \A k \in ClassifierKeys :
          OneLoad(classifier_loads, classifier_got, classifier_cache, k)

\* second run, after detect_language and predict_dialect read the properties
C7_Witness ==
    /\ runs = 2 /\ pc = "display"
    /\ whisper_loads[<<babel.whisper_model_id, babel.device>>] = 1
    /\ classifier_loads[<<babel.dialect_model_id, babel.device>>] = 1

\* C8: detect_language returns a code whose probability no other code of the
\* distribution exceeds; with no distribution (None or empty) it raises
\* ValueError and returns no code.
C8_DetectLanguageArgmax ==
    (probs # NoResponse) =>
        /\ (language # NoLanguage) =>
              /\ probs.kind = "dict"
              /\ \E i \in 1..Len(probs.items) :
                    /\ probs.items[i].code = language
                    /\ \A j \in 1..Len(probs.items) :
                          probs.items[j].p <= probs.items[i].p
        /\ (probs.kind = "none" \/ (probs.kind = "dict" /\ probs.items = <<>>)) =>
              (language = NoLanguage /\ raised = "ValueError")
        /\ (probs.kind = "dict" /\ probs.items # <<>>) => language # NoLanguage

C8_Witness ==
    /\ probs.kind = "dict" /\ Len(probs.items) = 2
    /\ probs.items[1].p < probs.items[2].p
    /\ language = probs.items[2].code

\* C9: when predict_dialect returns an empty sequence the request ends with
\* the "no predictions" message; nothing is raised (predictions[0] is not
\* read) and the generic error message is not shown.
C9_EmptyPredictionsNotAnException ==
    (RequestEnded /\ raw # NoRaw /\ predictions = <<>>) =>
        /\ "no_predictions" \in shown
        /\ "unexpected" \notin shown
        /\ raised = "None"
        /\ propagated = "StopException"

C9_Witness ==
    /\ RequestEnded /\ raw.type = "list" /\ Len(raw.items) = 1
    /\ predictions = <<>> /\ "no_predictions" \in shown

\* C11: a call of slice_audio(input, start, duration) that has its output
\* file runs the external process exactly once; the argument list begins with
\* "ffmpeg", holds "-ss", str(start), "-t", str(duration), "-i", input, "-vn",
\* "-acodec", "pcm_s16le", "-ar", "16000", "-ac", "1" in this order, and
\* ends with the output path.  For start=10.0 and duration=5.0 the list
\* holds "-ss", "10.0", "-t", "5.0" in this order.
RECURSIVE IsSubsequence(_, _)
IsSubsequence(want, have) ==
    IF want = <<>> THEN TRUE
    ELSE IF have = <<>> THEN FALSE
    ELSE IF Head(want) = Head(have) THEN IsSubsequence(Tail(want), Tail(have))
    ELSE IsSubsequence(want, Tail(have))

IsTenths(value, n) == value.type = "float" /\ value.tenths = n

C11_SingleFfmpegCommand ==
    (slice_created # None) =>
        /\ Len(ffmpeg_runs) = 1
        /\ LET cmd == ffmpeg_runs[1]
           IN  /\ cmd[1] = "ffmpeg"
               /\ cmd[Len(cmd)] = PathName(slice_created)
               /\ IsSubsequence(<<"-ss", str(slice_args.start_time),
                                  "-t", str(slice_args.duration),
                                  "-i", PathName(slice_args.input_path),
                                  "-vn", "-acodec", "pcm_s16le", "-ar", "16000",
                                  "-ac", "1">>,
                                SubSeq(cmd, 2, Len(cmd) - 1))
               /\ slice_args.input_path = saved
               /\ (IsTenths(slice_args.start_time, 100)
                     /\ IsTenths(slice_args.duration, 50)) =>
                       IsSubsequence(<<"-ss", "10.0", "-t", "5.0">>, cmd)
               /\ (slice_args.start_time.type = "str") =>
                       IsSubsequence(<<"-ss", slice_args.start_time.text>>, cmd)

\* the request has ended after slice_audio(input, 10.0, 5.0) ran ffmpeg
C11_Witness ==
    /\ RequestEnded /\ slice_created # None
    /\ IsTenths(slice_args.start_time, 100) /\ IsTenths(slice_args.duration, 50)
    /\ Len(ffmpeg_runs) = 1

\* C12: the predictions that predict_dialect returns and display_results
\* draws are in descending order of score, so that the first one has the
\* highest score, whatever the classification pipeline returned.
Descending(preds) ==
    \A i, j \in 1..Len(preds) :
        (i < j /\ HasKeys(preds[i]) /\ HasKeys(preds[j])) =>
            preds[i].score >= preds[j].score

C12_PredictionsDescending ==
    (raw # NoRaw) => (Descending(predictions) /\ Descending(rendered))

\* C13: when the application starts, set_offline_env has been invoked, and
\* with the offline toggle on the offline variables are set, by the time the
\* transformers library is imported.
OfflineToggleOn == lower(getenv(env_offline, "1")) \in {"1", "true", "yes"}

C13_OfflineEnvBeforeTransformers ==
    transformers_import.done =>
        /\ transformers_import.after_set_offline
        /\ OfflineToggleOn => transformers_import.offline

\* C14: the warm-up helper load_whisper_model(model_id) loads the model that
\* model_id names, so the model the warm-up script pre-loads is the one the
\* application loads through Babel.whisper_model, for every WHISPER_MODEL.
C14_WarmUpLoadsConfiguredWhisper ==
    (warmed # NoWarm /\ babel # NoBabel
        /\ whisper_loads[<<babel.whisper_model_id, babel.device>>] = 1) =>
        warmed.whisper = babel.whisper_model_id

\* C10: get_device returns one of "cuda", "mps", "cpu": "cuda" whenever CUDA
\* is available, whatever MPS says; else "mps" when MPS is available; else
\* "cpu".
C10_DeviceSelection ==
    (babel # NoBabel) =>
        /\ babel.device \in Devices
        /\ cuda => babel.device = "cuda"
        /\ (~cuda /\ mps) => babel.device = "mps"
        /\ (~cuda /\ ~mps) => babel.device = "cpu"

C10_Witness == babel # NoBabel /\ cuda /\ mps /\ babel.device = "cuda"

====
